---- MODULE Spec2Model ----
(***************************************************************************)
(* Trail-network construction, ride-to-segment mapping, Moran's I and      *)
(* candidate siting of car-free-accessibility-sumava, as state machines.   *)
(*                                                                         *)
(* Geometry is one-dimensional: a line is a sequence of integer            *)
(* x-coordinates in metres of the projected CRS (EPSG:32633), a point is   *)
(* an x-coordinate.  Quantities the code keeps in kilometres (distance_km, *)
(* trail_length_km, unique_trail_length_km) are kept in metres here, i.e.  *)
(* scaled by 1000, so that they stay integers.  Real-valued results are    *)
(* exact rationals [num, den]; den = 0 is the IEEE NaN of a 0/0 division.  *)
(***************************************************************************)
EXTENDS Integers, Sequences, FiniteSets, TLC

VARIABLES
    \* network construction and ride-to-segment mapping (main, steps 1-3)
    pc,             \* "start" | "built" | "mapped" | "failed" | "dispatched"
    rides,          \* the track collection: sequence of ride records
    entry,          \* which builder the caller invokes
    cfg_min_length, \* the minimum segment length the caller configured
    network,        \* the network GeoDataFrame: sequence of segment records
    cols,           \* the columns the network GeoDataFrame has
    mapLog,         \* the mapping functions called on the network, in order
    firstCounts,    \* <<ride_count per segment>> once a first mapping returned
    n_rides,        \* len(rides) as a dispatcher sees it
    strategy,       \* the builder a dispatcher selected
    dbscan,         \* <<>> or <<the DBSCAN parameters of the selected builder>>
    grid,           \* create_network_grid_based: cell size, cells left, all_segments
    network_file,   \* Config.TRAIL_NETWORK: <<>> or <<the columns and rows saved>>
    \* spatial analysis (LocationAnalyzer.analyze)
    stage,          \* position in the analysis pipeline
    network_proj,   \* the (LISA-annotated) network under analysis
    zones_proj,     \* exclusion zones: whether a layer was supplied, its polygons
    min_traffic,    \* usage floor passed to find_candidate_locations
    candidates,     \* the candidate GeoDataFrame: sequence of candidate records
    global_moran,   \* result record of calculate_global_morans_i
    lisa_runs,      \* results of the calculate_local_morans_i calls, in order
    candidates_file \* candidate_locations.gpkg: <<>> or <<the rows written>>

vars == <<pc, rides, entry, cfg_min_length, network, cols, mapLog,
          firstCounts, n_rides, strategy, dbscan, grid, network_file, stage,
          network_proj, zones_proj, min_traffic, candidates, global_moran,
          lisa_runs, candidates_file>>

buildVars == <<pc, rides, entry, cfg_min_length, network, cols, mapLog,
               firstCounts, n_rides, strategy, dbscan, grid, network_file>>

siteVars == <<stage, network_proj, zones_proj, min_traffic, candidates,
              global_moran, lisa_runs, candidates_file>>

runVars == <<lisa_runs, candidates_file>>

-----------------------------------------------------------------------------
(* Bounds of the model *)

MaxRides == 3

MaxMapCalls == 2

MaxSegs == 6

MaxTrackCount == 2100

-----------------------------------------------------------------------------
(* Program constants *)

SIMPLIFY_TOLERANCE == 15

INTERSECTION_BUFFER == 100

DefaultMinLength == 200

DefaultClusterDistance == 100

SequentialSimpleBelow == 100

SequentialClusteredBelow == 1000

AutoSimpleBelow == 100

AutoClusteredBelow == 500

AutoVectorizedBelow == 2000

HotspotEps == 2000

HotspotMinSamples == 2

CatchmentRadius == 5000

DefaultMinTraffic == 5

-----------------------------------------------------------------------------
(* Arithmetic helpers *)

Abs(x) == IF x < 0 THEN 0 - x ELSE x

MinOf(S) == CHOOSE x \in S : \A y \in S : x <= y

MaxOf(S) == CHOOSE x \in S : \A y \in S : x >= y

RECURSIVE SumSeq(_)
SumSeq(s) == IF s = <<>> THEN 0 ELSE Head(s) + SumSeq(Tail(s))

RECURSIVE ProdSeq(_)
ProdSeq(s) == IF s = <<>> THEN 1 ELSE Head(s) * ProdSeq(Tail(s))

RECURSIVE GCD(_, _)
GCD(a, b) == IF b = 0 THEN Abs(a) ELSE GCD(b, a % b)

\* a rational with a positive denominator, in lowest terms
Rat(n, d) == LET g == GCD(n, d) IN [num |-> n \div g, den |-> d \div g]

\* F applied to the value of v
Eval(v, F(_)) == CHOOSE r \in {F(x) : x \in {y \in {v} : y = v}} : TRUE

Reverse(s) == [i \in 1..Len(s) |-> s[Len(s) + 1 - i]]

\* the elements of sequence s at the (ascending) index set I, in order
RECURSIVE Pick(_, _)
Pick(s, I) ==
    IF I = {} THEN <<>>
    ELSE LET i == MinOf(I) IN <<s[i]>> \o Pick(s, I \ {i})

-----------------------------------------------------------------------------
(* Geometry: shapely operations on 1-D lines *)

\* LineString.length
Length(g) == SumSeq([i \in 1..(Len(g) - 1) |-> Abs(g[i + 1] - g[i])])

\* distance of point p to the straight segment a-b
PointSegDist(p, a, b) ==
    LET lo == IF a <= b THEN a ELSE b
        hi == IF a <= b THEN b ELSE a
    IN  IF p < lo THEN lo - p ELSE IF p > hi THEN p - hi ELSE 0

\* geometry.simplify(tolerance, preserve_topology=True): Douglas-Peucker,
\* a vertex is kept iff it lies farther than the tolerance from the chord
RECURSIVE Simplify(_, _)
Simplify(g, tol) ==
    IF Len(g) <= 2 THEN g
    ELSE LET n    == Len(g)
             d(i) == PointSegDist(g[i], g[1], g[n])
             far  == {i \in 2..(n - 1) : \A j \in 2..(n - 1) : d(j) <= d(i)}
             k    == MinOf(far)
         IN  IF d(k) > tol
             THEN Simplify(SubSeq(g, 1, k), tol)
                      \o Tail(Simplify(SubSeq(g, k, n), tol))
             ELSE <<g[1], g[n]>>

\* the extent a 1-D line covers
Lo(g) == MinOf({g[i] : i \in 1..Len(g)})

Hi(g) == MaxOf({g[i] : i \in 1..Len(g)})

\* geometry.centroid of a line: length-weighted mean of its pieces' midpoints
Centroid(g) ==
    LET n == Len(g)
    IN  Rat(SumSeq([i \in 1..(n - 1) |->
                       Abs(g[i + 1] - g[i]) * (g[i] + g[i + 1])]),
            2 * Length(g))

\* |p - q| <= r for rational points p, q (positive denominators)
RatWithin(p, q, r) ==
    Abs(p.num * q.den - q.num * p.den) <= r * p.den * q.den

\* geometry.interpolate(0.5, normalized=True), as twice the coordinate
RECURSIVE Along2(_, _)
Along2(g, twice) ==
    \* the point at distance twice/2 from the start of g, doubled
    LET step == Abs(g[2] - g[1])
    IN  IF Len(g) = 2 \/ twice <= 2 * step
        THEN IF g[2] >= g[1] THEN 2 * g[1] + twice ELSE 2 * g[1] - twice
        ELSE Along2(Tail(g), twice - 2 * step)

Midpoint2(g) == Along2(g, Length(g))

\* geometry.distance(point), doubled, for the doubled point p2
Distance2(g, p2) ==
    IF p2 < 2 * Lo(g) THEN 2 * Lo(g) - p2
    ELSE IF p2 > 2 * Hi(g) THEN p2 - 2 * Hi(g) ELSE 0

-----------------------------------------------------------------------------
(* The track collection *)

TrackShapes ==
    { <<0, 100>>, <<100, 250>>, <<250, 300>>,
      <<0, 300>>, <<150, 350>>, <<200, 500>>,
      <<0, 205, 195>> }

MinLengths == {80, 200, 260}

Entries == {"ultra_simple", "clustered", "fast", "sequential"}

\* DataLoader.load_data + calculate_km: a ride with its raw length
Ride(id, g) == [activity_id |-> id, geometry |-> g, distance_km |-> Length(g)]

RideLists ==
    UNION {[1..n -> TrackShapes] : n \in 0..MaxRides}

LoadRides(shapes) == [i \in 1..Len(shapes) |-> Ride(i, shapes[i])]

-----------------------------------------------------------------------------
(* sklearn.cluster.DBSCAN over rational 1-D points *)

\* the indices reachable from S through the neighbour function adj
RECURSIVE Closure(_, _)
Closure(S, adj) ==
    LET T == S \cup UNION {adj[i] : i \in S}
    IN  IF T = S THEN S ELSE Closure(T, adj)

\* cluster labels from the eps-neighbourhoods nbrs[i] (each holds i itself)
LabelsFromNeighbours(nbrs, min_samples) ==
    LET I       == DOMAIN nbrs
        core    == {i \in I : Cardinality(nbrs[i]) >= min_samples}
        coreAdj == [i \in I |-> nbrs[i] \cap core]
    IN  Eval([i \in core |-> MinOf(Closure({i}, coreAdj))],
             LAMBDA root :
                LET roots    == {root[i] : i \in core}
                    label(r) == Cardinality({q \in roots : q < r})
                IN  [i \in I |->
                        IF i \in core THEN label(root[i])
                        ELSE IF coreAdj[i] = {} THEN 0 - 1
                        ELSE MinOf({label(root[j]) : j \in coreAdj[i]})])

\* db.labels_ of DBSCAN(eps, min_samples).fit(points): a point with at least
\* min_samples points within eps (itself included) is a core point, clusters
\* are numbered in the order of their first core point, noise is -1
DBSCANLabels(points, eps, min_samples) ==
    LET I == 1..Len(points)
    IN  Eval([i \in I |-> {j \in I : RatWithin(points[i], points[j], eps)}],
             LAMBDA nbrs : LabelsFromNeighbours(nbrs, min_samples))

-----------------------------------------------------------------------------
(* shapely.ops.linemerge over 1-D lines *)

\* number of line ends of the collection at coordinate x
EndDegree(lines, x) ==
    Cardinality({i \in 1..Len(lines) : lines[i][1] = x})
        + Cardinality({i \in 1..Len(lines) : lines[i][Len(lines[i])] = x})

\* two lines joined end to end at the shared end x
Join(a, b, x) ==
    LET a2 == IF a[Len(a)] = x THEN a ELSE Reverse(a)
        b2 == IF b[1] = x THEN b ELSE Reverse(b)
    IN  a2 \o Tail(b2)

\* linemerge(lines): lines that meet end to end at a node no third line end
\* touches are sewn into one line, until no such node is left
RECURSIVE LineMerge(_)
LineMerge(lines) ==
    LET I       == 1..Len(lines)
        ends(i) == {lines[i][1], lines[i][Len(lines[i])]}
        pairs   == {p \in I \X I :
                       /\ p[1] < p[2]
                       /\ \E x \in ends(p[1]) \cap ends(p[2]) :
                              EndDegree(lines, x) = 2}
    IN  IF pairs = {} THEN lines
        ELSE LET i  == MinOf({p[1] : p \in pairs})
                 j  == MinOf({p[2] : p \in {q \in pairs : q[1] = i}})
                 x  == MinOf({y \in ends(i) \cap ends(j) :
                                  EndDegree(lines, y) = 2})
                 ab == Join(lines[i], lines[j], x)
             IN  LineMerge([k \in 1..(Len(lines) - 1) |->
                               IF k = i THEN ab
                               ELSE IF k < j THEN lines[k]
                               ELSE lines[k + 1]])

-----------------------------------------------------------------------------
(* NetworkBuilder: the three construction strategies *)

BuiltCols == {"segment_id", "geometry", "length_m", "distance_km"}

\* one row of the network GeoDataFrame
Segment(id, g, len, count, contributions) ==
    [segment_id |-> id, geometry |-> g, length_m |-> len, distance_km |-> len,
     ride_count |-> count, rides |-> contributions]

\* rides with simplified geometry and its length (steps "Simplify")
SimplifiedRides(rs, simplify_tolerance) ==
    [i \in 1..Len(rs) |->
        LET g == Simplify(rs[i].geometry, simplify_tolerance)
        IN  [activity_id |-> rs[i].activity_id, geometry |-> g,
             length_m |-> Length(g), distance_km |-> rs[i].distance_km]]

MinLengthFilterMutant(rows, min_length) ==
    LET Short(r) == r.length_m < min_length
    IN  SelectSeq(rows, Short)

\* simplified[simplified['length_m'] >= min_length]
MinLengthFilter(rows, min_length) ==
    LET Keep(r) == r.length_m >= min_length
    IN  SelectSeq(rows, Keep)

\* create_network_ultra_simple: every surviving ride is one segment
create_network_ultra_simple(rs, simplify_tolerance, min_length) ==
    LET kept == MinLengthFilter(SimplifiedRides(rs, simplify_tolerance),
                                min_length)
    IN  [ok   |-> TRUE,
         cols |-> BuiltCols \cup {"activity_id", "ride_count", "rides"},
         net  |-> [i \in 1..Len(kept) |->
                     Segment(i - 1, kept[i].geometry, kept[i].length_m, 1,
                             <<[activity_id |-> kept[i].activity_id,
                                distance_km |-> kept[i].length_m]>>)]]

ClusterSegmentsMutant(kept, labels) ==
    LET I == 1..Len(kept)
        n_clusters == Cardinality({labels[i] : i \in I})
        members(c) == {i \in I : labels[i] = c}
        rep(c) == MinOf(members(c))
    IN  [k \in 1..n_clusters |->
            Segment(k - 1, kept[rep(k - 1)].geometry,
                    kept[rep(k - 1)].length_m,
                    Cardinality(members(k - 1)),
                    Pick([i \in I |->
                            [activity_id |-> kept[i].activity_id,
                             distance_km |-> kept[i].distance_km]],
                         members(k - 1)))]

\* STEP 3 of create_network_clustered: one segment per cluster label, the
\* longest member ride its geometry, the members its contribution list
ClusterSegments(kept, labels) ==
    LET I == 1..Len(kept)
        n_clusters == Cardinality({labels[i] : i \in I})
        members(c) == {i \in I : labels[i] = c}
        \* cluster_rides.nlargest(1, 'length_m').iloc[0]
        rep(c) == MinOf({i \in members(c) :
                    \A j \in members(c) : kept[j].length_m <= kept[i].length_m})
    IN  [k \in 1..n_clusters |->
            Segment(k - 1, kept[rep(k - 1)].geometry,
                    kept[rep(k - 1)].length_m,
                    Cardinality(members(k - 1)),
                    Pick([i \in I |->
                            [activity_id |-> kept[i].activity_id,
                             distance_km |-> kept[i].distance_km]],
                         members(k - 1)))]

\* create_network_clustered: DBSCAN over ride centroids, the longest ride of
\* a cluster represents it.  DBSCAN.fit raises on an empty array.
create_network_clustered(rs, simplify_tolerance, min_length, cluster_distance) ==
    Eval(MinLengthFilter(SimplifiedRides(rs, simplify_tolerance), min_length),
         LAMBDA kept :
            IF Len(kept) = 0
            THEN [ok |-> FALSE, cols |-> {}, net |-> <<>>]
            ELSE [ok   |-> TRUE,
                  cols |-> BuiltCols \cup {"ride_count", "rides"},
                  net  |-> Eval(DBSCANLabels(
                                    [i \in 1..Len(kept) |->
                                        Centroid(kept[i].geometry)],
                                    cluster_distance, 1),
                                LAMBDA labels : ClusterSegments(kept, labels))])

\* create_network_fast: linemerge of all simplified rides, then the length
\* filter; the result has no ride_count and no rides column
create_network_fast(rs, simplify_tolerance, merge_tolerance, min_length) ==
    LET simplified == [i \in 1..Len(rs) |->
                          Simplify(rs[i].geometry, simplify_tolerance)]
        merged     == LineMerge(simplified)
        rows       == [i \in 1..Len(merged) |->
                          [geometry |-> merged[i], length_m |-> Length(merged[i])]]
        segments   == MinLengthFilter(rows, min_length)
    IN  [ok   |-> TRUE,
         cols |-> BuiltCols,
         net  |-> [i \in 1..Len(segments) |->
                     Segment(i - 1, segments[i].geometry, segments[i].length_m,
                             0, <<>>)]]

\* the strategy create_network_sequential picks for n_rides rides
SequentialStrategy(n) ==
    IF n < SequentialSimpleBelow THEN "ultra_simple"
    ELSE IF n < SequentialClusteredBelow THEN "clustered"
    ELSE "fast"

\* create_network_sequential(rides, tolerance, snap_tolerance): min_length is
\* not a parameter, every strategy runs with its default min_length
create_network_sequential(rs, tolerance, snap_tolerance) ==
    LET s == SequentialStrategy(Len(rs))
    IN  IF s = "ultra_simple"
        THEN create_network_ultra_simple(rs, tolerance, DefaultMinLength)
        ELSE IF s = "clustered"
        THEN create_network_clustered(rs, tolerance, DefaultMinLength,
                                      snap_tolerance * 2)
        ELSE create_network_fast(rs, tolerance, snap_tolerance,
                                 DefaultMinLength)

SNAP_TOLERANCE == 100

\* the builder call the caller makes, with the configured minimum length
BuildNetwork(e, rs, min_length) ==
    IF e = "ultra_simple"
    THEN create_network_ultra_simple(rs, SIMPLIFY_TOLERANCE, min_length)
    ELSE IF e = "clustered"
    THEN create_network_clustered(rs, SIMPLIFY_TOLERANCE, min_length,
                                  DefaultClusterDistance)
    ELSE IF e = "fast"
    THEN create_network_fast(rs, SIMPLIFY_TOLERANCE, SNAP_TOLERANCE, min_length)
    ELSE create_network_sequential(rs, SIMPLIFY_TOLERANCE, SNAP_TOLERANCE)

-----------------------------------------------------------------------------
(* Ride-to-segment mapping *)

RideCounts(net) == [i \in 1..Len(net) |-> net[i].ride_count]

Contribution(r) == [activity_id |-> r.activity_id, distance_km |-> r.distance_km]

\* distances.idxmin(): the first segment at the least distance from the
\* ride's midpoint
ClosestIdx(net, r) ==
    LET d(i) == Distance2(net[i].geometry, Midpoint2(r.geometry))
    IN  MinOf({i \in 1..Len(net) : \A j \in 1..Len(net) : d(i) <= d(j)})

\* the segment the per-ride loop attributes ride r to, 0 when none
LoopTargetMutant(net, r, buffer_distance) == ClosestIdx(net, r)

LoopTarget(net, r, buffer_distance) ==
    LET c == ClosestIdx(net, r)
    IN  IF Distance2(net[c].geometry, Midpoint2(r.geometry))
              <= 2 * buffer_distance
        THEN c ELSE 0

map_rides_to_segmentsMutant(net, columns, rs, buffer_distance) ==
    IF {"rides", "ride_count"} \subseteq columns
    THEN [ok |-> TRUE, net |-> net, cols |-> columns]
    ELSE IF Len(rs) > 0 /\ Len(net) = 0
    THEN [ok |-> FALSE, net |-> net, cols |-> columns]
    ELSE LET hits(i) == {k \in 1..Len(rs) :
                            LoopTarget(net, rs[k], buffer_distance) = i}
             near(i) == {k \in 1..Len(rs) : ClosestIdx(net, rs[k]) = i}
         IN  [ok   |-> TRUE,
              cols |-> columns \cup {"ride_count", "rides"},
              net  |-> [i \in 1..Len(net) |->
                          [net[i] EXCEPT
                             !.ride_count = Cardinality(near(i)),
                             !.rides = Pick([k \in 1..Len(rs) |->
                                               Contribution(rs[k])], hits(i))]]]

\* NetworkBuilder.map_rides_to_segments
map_rides_to_segments(net, columns, rs, buffer_distance) ==
    IF {"rides", "ride_count"} \subseteq columns
    THEN [ok |-> TRUE, net |-> net, cols |-> columns]
    ELSE IF Len(rs) > 0 /\ Len(net) = 0
    THEN \* idxmin of an empty distance series raises ValueError
         [ok |-> FALSE, net |-> net, cols |-> columns]
    ELSE LET hits(i) == {k \in 1..Len(rs) :
                            LoopTarget(net, rs[k], buffer_distance) = i}
         IN  [ok   |-> TRUE,
              cols |-> columns \cup {"ride_count", "rides"},
              net  |-> [i \in 1..Len(net) |->
                          [net[i] EXCEPT
                             !.ride_count = Cardinality(hits(i)),
                             !.rides = Pick([k \in 1..Len(rs) |->
                                               Contribution(rs[k])], hits(i))]]]

\* gpd.sjoin_nearest(midpoints, network, max_distance): one row per ride and
\* segment at the least distance, every tie included
NearestRows(net, r, max_distance) ==
    LET d(i) == Distance2(net[i].geometry, Midpoint2(r.geometry))
    IN  {i \in 1..Len(net) :
            /\ d(i) <= 2 * max_distance
            /\ \A j \in 1..Len(net) : d(i) <= d(j)}

\* column names of DataFrame.merge: a name both frames have gets suffixes
Suffixed(c) ==
    IF c = "ride_count" THEN {"ride_count_x", "ride_count_y"}
    ELSE {"rides_x", "rides_y"}

MergeColumns(left, right) ==
    ((left \cup right) \ (left \cap right))
        \cup UNION {Suffixed(c) : c \in left \cap right}

\* OptimizedNetworkBuilder.map_rides_to_segments_vectorized: the set of
\* outcomes.  With no joined row, ride_counts.apply(..., axis=1) returns a
\* frame instead of a series and the assignment of the rides column depends
\* on the pandas version: it either raises or leaves every count at 0.
map_rides_to_segments_vectorized(net, columns, rs, buffer_distance) ==
    LET rows(i) == {k \in 1..Len(rs) :
                       i \in NearestRows(net, rs[k], buffer_distance)}
        joined  == UNION {rows(i) : i \in 1..Len(net)}
        merged  == MergeColumns(columns, {"ride_count", "rides"})
        failed  == [ok |-> FALSE, net |-> net, cols |-> columns]
        mapped  == [ok   |-> TRUE,
                    cols |-> merged,
                    net  |-> [i \in 1..Len(net) |->
                                [net[i] EXCEPT
                                   !.ride_count = Cardinality(rows(i)),
                                   !.rides = Pick([k \in 1..Len(rs) |->
                                                     Contribution(rs[k])],
                                                  rows(i))]]]
    IN  IF ~ ({"ride_count", "rides"} \subseteq merged)
        THEN {failed}     \* KeyError: 'ride_count'
        ELSE IF joined = {} THEN {failed, mapped}
        ELSE {mapped}

-----------------------------------------------------------------------------
(* main(), steps 1-3: load the rides, build the network, map the rides *)

IdleSite ==
    /\ stage = "idle"
    /\ network_proj = <<>>
    /\ zones_proj = [present |-> FALSE, polys |-> <<>>]
    /\ min_traffic = 0
    /\ candidates = <<>>
    /\ global_moran = <<>>
    /\ lisa_runs = <<>>
    /\ candidates_file = <<>>

Init ==
    /\ pc = "start"
    /\ \E shapes \in RideLists : rides = LoadRides(shapes)
    /\ entry \in Entries
    /\ cfg_min_length \in MinLengths
    /\ network = <<>>
    /\ cols = {}
    /\ mapLog = <<>>
    /\ firstCounts = <<>>
    /\ n_rides = 0
    /\ strategy = "none"
    /\ dbscan = <<>>
    /\ grid = <<>>
    /\ network_file = <<>>
    /\ IdleSite

Build ==
    /\ pc = "start"
    /\ LET res == BuildNetwork(entry, rides, cfg_min_length)
       IN  /\ pc' = IF res.ok THEN "built" ELSE "failed"
           /\ network' = res.net
           /\ cols' = res.cols
    /\ UNCHANGED <<rides, entry, cfg_min_length, mapLog, firstCounts>>
    /\ UNCHANGED <<n_rides, strategy, dbscan, grid, network_file>>
    /\ UNCHANGED siteVars

AfterMapping(res, name) ==
    /\ pc' = IF res.ok THEN "mapped" ELSE "failed"
    /\ network' = res.net
    /\ cols' = res.cols
    /\ mapLog' = Append(mapLog, name)
    /\ firstCounts' = IF mapLog = <<>> /\ res.ok
                      THEN <<RideCounts(res.net)>> ELSE firstCounts
    /\ UNCHANGED <<rides, entry, cfg_min_length, n_rides, strategy, dbscan,
                   grid, network_file>>
    /\ UNCHANGED siteVars

MapRides ==
    /\ pc \in {"built", "mapped"}
    /\ Len(mapLog) < MaxMapCalls
    /\ AfterMapping(map_rides_to_segments(network, cols, rides,
                                          INTERSECTION_BUFFER), "loop")

MapRidesVectorized ==
    /\ pc \in {"built", "mapped"}
    /\ Len(mapLog) < MaxMapCalls
    /\ \E res \in map_rides_to_segments_vectorized(network, cols, rides,
                                                   INTERSECTION_BUFFER) :
           AfterMapping(res, "vectorized")

Next == Build \/ MapRides \/ MapRidesVectorized

Spec == Init /\ [][Next]_vars

-----------------------------------------------------------------------------
(* Properties of network construction and mapping *)

TotalRideCount(net) == SumSeq(RideCounts(net))

\* length of a ride's geometry after the builders' simplification
SimplifiedLength(r) == Length(Simplify(r.geometry, SIMPLIFY_TOLERANCE))

\* C1: ride-to-segment mapping is idempotent: applying the same mapping
\* function a second time to its own output completes without error and
\* leaves every segment's ride_count as it was after the first application
\* (stated for a first application that attributed at least one ride).
C1_MappingIdempotent ==
    (/\ Len(mapLog) = 2 /\ mapLog[1] = mapLog[2]
     /\ firstCounts # <<>> /\ SumSeq(firstCounts[1]) > 0)
        => (pc = "mapped" /\ RideCounts(network) = firstCounts[1])

\* the strategies that take min_length from the caller
DirectEntries == {"ultra_simple", "clustered", "fast"}

SegmentCountAt(e, m) ==
    LET res == BuildNetwork(e, rides, m)
    IN  IF res.ok THEN Len(res.net) ELSE 0

SurvivorCountAt(e, m) ==
    LET res == BuildNetwork(e, rides, m)
    IN  IF res.ok THEN TotalRideCount(res.net) ELSE 0

\* C3 as claimed: under each builder strategy, a larger min-length never
\* yields more segments for the same tracks.
C3_SegmentCountMonotone ==
    (pc = "built" /\ mapLog = <<>> /\ entry \in DirectEntries)
        => \A m \in MinLengths :
              m >= cfg_min_length => SegmentCountAt(entry, m) <= Len(network)

\* C3 amended: a larger min-length never yields more segments under the
\* direct and merge strategies; under density clustering it never yields
\* more clustered tracks (sum of ride_count), while the number of clusters
\* may grow when a dropped track was the link of a chain.
C3_SegmentCountMonotoneAmended ==
    (pc = "built" /\ mapLog = <<>>)
        => \A m \in MinLengths :
              m >= cfg_min_length =>
                 /\ entry \in {"ultra_simple", "fast"}
                       => SegmentCountAt(entry, m) <= Len(network)
                 /\ entry = "clustered"
                       => SurvivorCountAt(entry, m) <= TotalRideCount(network)

\* a larger threshold has split a cluster chain, or dropped a segment
C3_Witness ==
    /\ pc = "built" /\ mapLog = <<>>
    /\ \/ /\ entry = "clustered"
          /\ \E m \in MinLengths :
                /\ m > cfg_min_length
                /\ SegmentCountAt(entry, m) > Len(network)
                /\ SurvivorCountAt(entry, m) < TotalRideCount(network)
       \/ /\ entry = "fast"
          /\ \E m \in MinLengths :
                m > cfg_min_length /\ SegmentCountAt(entry, m) < Len(network)

\* the rides a mapped network can count: those the length filter of the
\* strategy kept (strategies recording membership), or those whose midpoint
\* is within the mapping distance of a segment (merge strategy)
EffectiveMinLength == IF entry = "sequential" THEN DefaultMinLength
                      ELSE cfg_min_length

AttributedRides ==
    IF entry = "fast"
    THEN {k \in 1..Len(rides) :
             \E i \in 1..Len(network) :
                Distance2(network[i].geometry, Midpoint2(rides[k].geometry))
                    <= 2 * INTERSECTION_BUFFER}
    ELSE {k \in 1..Len(rides) : SimplifiedLength(rides[k]) >= EffectiveMinLength}

\* C8 as claimed: after construction and mapping the ride counts sum to at
\* least the number of input tracks.
C8_SumAtLeastTracks ==
    pc = "mapped" => TotalRideCount(network) >= Len(rides)

\* C8 amended: after construction and mapping the ride counts sum to at
\* least the number of tracks that survive the length filter (direct and
\* clustering strategies) or whose midpoint lies within the mapping distance
\* of a segment (merge strategy); with the per-ride loop the sum is exactly
\* that number, so it never exceeds the number of input tracks.
C8_SumAtLeastAttributed ==
    pc = "mapped" =>
        /\ TotalRideCount(network) >= Cardinality(AttributedRides)
        /\ (\A k \in 1..Len(mapLog) : mapLog[k] = "loop")
              => /\ TotalRideCount(network) = Cardinality(AttributedRides)
                 /\ TotalRideCount(network) <= Len(rides)

\* a merged network whose counts fall short of the number of tracks, a track
\* lying farther than the mapping distance from every segment
C8_Witness ==
    /\ pc = "mapped"
    /\ TotalRideCount(network) < Len(rides)
    /\ TotalRideCount(network) > 0
    /\ entry = "fast"
    /\ \E k \in 1..Len(rides) : k \notin AttributedRides

\* C9: under the direct strategy, called directly or reached through the
\* size-based dispatcher, the network holds exactly one segment per track
\* whose simplified length is >= the configured min-length, in track order,
\* each with ride_count = 1.
C9_DirectOnePerTrack ==
    (pc = "built" /\ mapLog = <<>> /\ entry \in {"ultra_simple", "sequential"})
        => LET kept == {k \in 1..Len(rides) :
                           SimplifiedLength(rides[k]) >= cfg_min_length}
           IN  /\ Len(network) = Cardinality(kept)
               /\ \A i \in 1..Len(network) :
                     /\ network[i].ride_count = 1
                     /\ Len(network[i].rides) = 1
                     /\ network[i].rides[1].activity_id \in kept

-----------------------------------------------------------------------------
(* The network under spatial analysis *)

\* segments lie along a trail corridor: centroids 2000 m apart ("corridor"),
\* or in pairs 2000 m apart with 3000 m between pairs ("pairs"); the first
\* two are short and apart from each other, the later ones overlap
Layouts == {"corridor", "pairs"}

SiteGeometry(layout, k) ==
    LET c == 1000 + 2000 * k + (IF layout = "pairs" THEN 1000 * (k \div 2) ELSE 0)
        h == IF k < 2 THEN 500 ELSE 1100
    IN  <<c - h, c + h>>

\* what calculate_local_morans_i attached to a segment, with its usage
LisaOptions ==
    { [cluster_type |-> "Not Significant", significant |-> FALSE,
       ride_count |-> 5, local_i |-> 0],
      [cluster_type |-> "High-High", significant |-> TRUE,
       ride_count |-> 5, local_i |-> 1],
      [cluster_type |-> "High-High", significant |-> TRUE,
       ride_count |-> 6, local_i |-> 2] }

AnalysedSegment(layout, k, o) ==
    [segment_id |-> k, geometry |-> SiteGeometry(layout, k),
     distance_km |-> Length(SiteGeometry(layout, k)),
     ride_count |-> o.ride_count,
     local_i |-> o.local_i, significant |-> o.significant,
     cluster_type |-> o.cluster_type]

LisaNetworks ==
    UNION {{[i \in 1..n |-> AnalysedSegment(l, i - 1, f[i])] :
               f \in [1..n -> LisaOptions]} :
           <<l, n>> \in Layouts \X (2..MaxSegs)}

MinTraffics == {5, 6}

\* exclusion-zone layers: none supplied, or polygons [lo, hi] with a ZONA
Zone(z, lo, hi) == [ZONA |-> z, lo |-> lo, hi |-> hi]

ZoneLayers ==
    { [present |-> FALSE, polys |-> <<>>],
      [present |-> TRUE, polys |-> <<Zone("A", 0, 2500)>>],
      [present |-> TRUE, polys |-> <<Zone("B", 2200, 6000)>>],
      [present |-> TRUE,
       polys |-> <<Zone("A", 0, 2500), Zone("B", 2200, 6000)>>] }

-----------------------------------------------------------------------------
(* LocationAnalyzer.find_candidate_locations *)

HotspotFilterMutant(seg, t) ==
    /\ seg.cluster_type = "High-High"
    /\ seg.significant
    /\ seg.ride_count <= t

\* the row filter of find_candidate_locations
HotspotFilter(seg, t) ==
    /\ seg.cluster_type = "High-High"
    /\ seg.significant
    /\ seg.ride_count >= t

\* np.average(centroids, weights=local_i)
WeightedCentre(segs) ==
    LET I    == 1..Len(segs)
        c(i) == Centroid(segs[i].geometry)
        P    == ProdSeq([i \in I |-> c(i).den])
    IN  Rat(SumSeq([i \in I |-> segs[i].local_i * c(i).num * (P \div c(i).den)]),
            P * SumSeq([i \in I |-> segs[i].local_i]))

Candidate(point, segs) ==
    [geometry |-> point,
     hotspot_segments |-> Len(segs),
     total_rides |-> SumSeq([i \in 1..Len(segs) |-> segs[i].ride_count]),
     mean_local_morans_i |->
         Rat(SumSeq([i \in 1..Len(segs) |-> segs[i].local_i]), Len(segs)),
     clustering_strength |-> SumSeq([i \in 1..Len(segs) |-> segs[i].local_i]),
     trail_count |-> 0, trail_length_km |-> 0, unique_trail_length_km |-> 0,
     zone_type |-> "", in_prohibited_zone |-> FALSE,
     suitability_score |-> [num |-> 0, den |-> 1], rank |-> 0]

\* one candidate per DBSCAN label other than -1, at the centre of its
\* hotspots weighted by local_i; GeoDataFrame([], geometry='geometry') of an
\* all-noise clustering raises, there being no geometry column
GroupCandidates(hotspots, labels) ==
    LET H      == 1..Len(hotspots)
        groups == {labels[i] : i \in H} \ {0 - 1}
    IN  IF groups = {} THEN [status |-> "failed", rows |-> <<>>]
        ELSE [status |-> "ok",
              rows   |-> [k \in 1..Cardinality(groups) |->
                            Eval(Pick(hotspots, {i \in H : labels[i] = k - 1}),
                                 LAMBDA segs :
                                    Candidate(WeightedCentre(segs), segs))]]

\* find_candidate_locations(network_proj, min_traffic): "none" is the None
\* return
find_candidate_locations(net, t) ==
    Eval(Pick(net, {i \in 1..Len(net) : HotspotFilter(net[i], t)}),
         LAMBDA hotspots :
            IF Len(hotspots) = 0 THEN [status |-> "none", rows |-> <<>>]
            ELSE Eval(DBSCANLabels([i \in 1..Len(hotspots) |->
                                       Centroid(hotspots[i].geometry)],
                                   HotspotEps, HotspotMinSamples),
                      LAMBDA labels : GroupCandidates(hotspots, labels)))

-----------------------------------------------------------------------------
(* LocationAnalyzer.calculate_trail_access *)

\* network_proj.geometry.intersects(point.buffer(radius_m))
InCatchment(g, point, radius_m) ==
    /\ Lo(g) * point.den - point.num <= radius_m * point.den
    /\ point.num - Hi(g) * point.den <= radius_m * point.den

UnionLengthMutant(geoms) ==
    SumSeq([i \in 1..Len(geoms) |-> Length(geoms[i])])

\* unary_union(geometries).length: every stretch of the line is measured once
UnionLength(geoms) ==
    LET B == UNION {{geoms[i][j] : j \in 1..Len(geoms[i])} : i \in 1..Len(geoms)}
        next(b) == MinOf({x \in B : x > b})
        covered(b) == \E i \in 1..Len(geoms) :
                         Lo(geoms[i]) <= b /\ next(b) <= Hi(geoms[i])
        stretches == {b \in B : b # MaxOf(B) /\ covered(b)}
    IN  IF B = {} THEN 0
        ELSE SumSeq(Pick([b \in B |-> IF b = MaxOf(B) THEN 0 ELSE next(b) - b],
                         stretches))

\* the four columns calculate_trail_access writes for one candidate
AccessMetrics(cand, nearby) ==
    LET N == 1..Len(nearby)
    IN  [cand EXCEPT
           !.trail_count = Len(nearby),
           !.trail_length_km = SumSeq([i \in N |-> nearby[i].distance_km]),
           !.total_rides = SumSeq([i \in N |-> nearby[i].ride_count]),
           !.unique_trail_length_km =
               IF Len(nearby) > 0
               THEN UnionLength([i \in N |-> nearby[i].geometry])
               ELSE 0]

calculate_trail_access(cands, net, radius_m) ==
    [k \in 1..Len(cands) |->
        Eval(Pick(net, {i \in 1..Len(net) :
                          InCatchment(net[i].geometry, cands[k].geometry,
                                      radius_m)}),
             LAMBDA nearby : AccessMetrics(cands[k], nearby))]

-----------------------------------------------------------------------------
(* LocationAnalyzer.check_environmental_constraints *)

\* point within polygon: in its interior
Within(point, zone) ==
    /\ zone.lo * point.den < point.num
    /\ point.num < zone.hi * point.den

\* gpd.sjoin(candidates, zones, how='left', predicate='within'): the ZONA
\* values joined to candidate k, one row per zone it lies within
JoinedZones(cand, polys) ==
    Pick([j \in 1..Len(polys) |-> polys[j].ZONA],
         {j \in 1..Len(polys) : Within(cand.geometry, polys[j])})

\* candidates['zone_type'] == 'A'
ProhibitedFlag(zone_type) == zone_type = "A"

UnknownZoneMutant(c) ==
    [c EXCEPT !.in_prohibited_zone = TRUE, !.zone_type = "Unknown"]

\* zones_proj is None: in_prohibited_zone = False, zone_type = 'Unknown'
UnknownZone(c) ==
    [c EXCEPT !.in_prohibited_zone = FALSE, !.zone_type = "Unknown"]

\* check_environmental_constraints(candidates, zones_proj): with a candidate
\* inside two polygons the joined frame repeats its index label, and
\* assigning joined['ZONA'] to a column raises ValueError (cannot reindex on
\* an axis with duplicate labels)
check_environmental_constraints(cands, zones) ==
    LET K == 1..Len(cands)
        joined(k) == JoinedZones(cands[k], zones.polys)
        zone_type(k) == IF joined(k) = <<>> THEN "None" ELSE joined(k)[1]
    IN  IF ~ zones.present
        THEN [ok |-> TRUE, rows |-> [k \in K |-> UnknownZone(cands[k])]]
        ELSE IF \E k \in K : Len(joined(k)) > 1
        THEN [ok |-> FALSE, rows |-> cands]
        ELSE [ok |-> TRUE,
              rows |-> [k \in K |-> [cands[k] EXCEPT
                                       !.zone_type = zone_type(k),
                                       !.in_prohibited_zone =
                                           ProhibitedFlag(zone_type(k))]]]

-----------------------------------------------------------------------------
(* LocationAnalyzer.calculate_composite_scores *)

RatLeq(a, b) == a.num * b.den <= b.num * a.den

IntRat(n) == [num |-> n, den |-> 1]

\* Series.rank(ascending=True, method='dense'): 1 + the number of distinct
\* smaller values
DenseRank(vals, i) ==
    LET I == 1..Len(vals)
        same(j, k) == RatLeq(vals[j], vals[k]) /\ RatLeq(vals[k], vals[j])
        firsts == {j \in I : \A k \in 1..(j - 1) : ~ same(j, k)}
    IN  Cardinality({j \in firsts : RatLeq(vals[j], vals[i])})

DenseRankDescendingMutant(vals, i) == DenseRank(vals, i)

\* Series.rank(ascending=False, method='dense')
DenseRankDescending(vals, i) ==
    DenseRank([j \in 1..Len(vals) |-> [num |-> 0 - vals[j].num,
                                       den |-> vals[j].den]], i)

\* df.sort_values(column, ascending=False): stable for ties
RECURSIVE SortDescending(_)
SortDescending(rows) ==
    IF rows = <<>> THEN <<>>
    ELSE LET I == 1..Len(rows)
             best == MinOf({i \in I : \A j \in I :
                              RatLeq(rows[j].suitability_score,
                                     rows[i].suitability_score)})
         IN  <<rows[best]>>
                 \o SortDescending(Pick(rows, I \ {best}))

WeightedScoreMutant(ra, ru, rc, n) ==
    [num |-> 40 * ra + 30 * ru + 30 * rc, den |-> n]

\* suitability before the zone penalty, over the common denominator len(df):
\* (rank / len * 100) * 0.30 + ... = (30 ra + 30 ru + 40 rc) / len
WeightedScore(ra, ru, rc, n) ==
    [num |-> 30 * ra + 30 * ru + 40 * rc, den |-> n]

ZonePenaltyMutant(c, score) == score

\* df.loc[df['in_prohibited_zone'], 'suitability_score'] = 0.0
ZonePenalty(c, score) ==
    IF c.in_prohibited_zone THEN [num |-> 0, den |-> score.den] ELSE score

\* df['rank'] = df['suitability_score'].rank(ascending=False, method='dense')
RankScores(scored) ==
    Eval([j \in 1..Len(scored) |-> scored[j].suitability_score],
         LAMBDA scores :
            [k \in 1..Len(scored) |->
                [scored[k] EXCEPT !.rank = DenseRankDescending(scores, k)]])

calculate_composite_scores(cands) ==
    LET K  == 1..Len(cands)
        n  == Len(cands)
        ra(k) == DenseRank([j \in K |-> IntRat(cands[j].unique_trail_length_km)], k)
        ru(k) == DenseRank([j \in K |-> IntRat(cands[j].total_rides)], k)
        rc(k) == DenseRank([j \in K |-> cands[j].mean_local_morans_i], k)
    IN  Eval([k \in K |->
                 [cands[k] EXCEPT !.suitability_score =
                     ZonePenalty(cands[k],
                                 WeightedScore(ra(k), ru(k), rc(k), n))]],
             LAMBDA scored :
                Eval(RankScores(scored), LAMBDA ranked : SortDescending(ranked)))

-----------------------------------------------------------------------------
(* LocationAnalyzer.analyze, steps 3-6, on a LISA-annotated network *)

IdleBuild ==
    /\ pc = "idle"
    /\ rides = <<>>
    /\ entry = "none"
    /\ cfg_min_length = 0
    /\ network = <<>>
    /\ cols = {}
    /\ mapLog = <<>>
    /\ firstCounts = <<>>
    /\ n_rides = 0
    /\ strategy = "none"
    /\ dbscan = <<>>
    /\ grid = <<>>
    /\ network_file = <<>>

NoZones == [present |-> FALSE, polys |-> <<>>]

InitSite ==
    /\ IdleBuild
    /\ stage = "lisa"
    /\ network_proj \in LisaNetworks
    /\ zones_proj = NoZones
    /\ min_traffic = DefaultMinTraffic
    /\ candidates = <<>>
    /\ global_moran = <<>>
    /\ lisa_runs = <<>>
    /\ candidates_file = <<>>

FindCandidates ==
    /\ stage = "lisa"
    /\ \E t \in MinTraffics :
          LET res == find_candidate_locations(network_proj, t)
          IN  /\ min_traffic' = t
              /\ candidates' = res.rows
              /\ stage' = IF res.status = "ok" THEN "candidates"
                          ELSE IF res.status = "none" THEN "no_candidates"
                          ELSE "failed"
    /\ UNCHANGED <<network_proj, zones_proj, global_moran>>
    /\ UNCHANGED runVars
    /\ UNCHANGED buildVars

TrailAccess ==
    /\ stage = "candidates"
    /\ candidates' = calculate_trail_access(candidates, network_proj,
                                             CatchmentRadius)
    /\ stage' = "access"
    /\ UNCHANGED <<network_proj, zones_proj, min_traffic, global_moran>>
    /\ UNCHANGED runVars
    /\ UNCHANGED buildVars

CheckConstraints ==
    /\ stage = "access"
    /\ \E z \in ZoneLayers :
          LET res == check_environmental_constraints(candidates, z)
          IN  /\ zones_proj' = z
              /\ candidates' = res.rows
              /\ stage' = IF res.ok THEN "checked" ELSE "failed"
    /\ UNCHANGED <<network_proj, min_traffic, global_moran>>
    /\ UNCHANGED runVars
    /\ UNCHANGED buildVars

CompositeScores ==
    /\ stage = "checked"
    /\ candidates' = calculate_composite_scores(candidates)
    /\ stage' = "scored"
    /\ UNCHANGED <<network_proj, zones_proj, min_traffic, global_moran>>
    /\ UNCHANGED runVars
    /\ UNCHANGED buildVars

NextSite == FindCandidates \/ TrailAccess \/ CheckConstraints \/ CompositeScores

SpecSite == InitSite /\ [][NextSite]_vars

-----------------------------------------------------------------------------
(* SpatialAutocorrelation.calculate_global_morans_i *)

\* permutations of esda's Moran(y, w), its default
NumPermutations == 999

\* distance_threshold of the DistanceBand weights
DistanceThreshold == 2000

\* p_sim < 0.05, in thousandths
SignificanceLevel == 50

RideCountValues == {1, 5, 6}

\* the network of layout l whose segments have the ride counts f
MoranNetwork(l, f) ==
    [i \in 1..Len(f) |->
        [segment_id |-> i - 1, geometry |-> SiteGeometry(l, i - 1),
         distance_km |-> Length(SiteGeometry(l, i - 1)),
         ride_count |-> f[i]]]

\* how many of the permuted statistics came out >= the observed one
PermutationOutcomes == {0, 48, 49, 500, 951, NumPermutations}

\* DistanceBand.from_array(coords, threshold, binary=True): neighbours[i] are
\* the other centroids within the threshold
DistanceBand(net, threshold) ==
    Eval([i \in 1..Len(net) |-> Centroid(net[i].geometry)],
         LAMBDA centroids :
            [i \in 1..Len(net) |->
                {j \in 1..Len(net) \ {i} :
                    RatWithin(centroids[i], centroids[j], threshold)}])

\* Moran.I = n / S0 * sum(z * lag(w, z)) / sum(z * z) with row-standardised
\* weights, as a fraction; z is carried as n * (y - mean).  den = 0 is the
\* NaN of a zero sum of squares (or of weights without any neighbour pair).
MoranI(y, nbrs) ==
    LET I   == 1..Len(y)
        n   == Len(y)
        z   == [i \in I |-> n * y[i] - SumSeq(y)]
        d   == [i \in I |-> Cardinality(nbrs[i])]
        D   == ProdSeq([i \in I |-> IF d[i] = 0 THEN 1 ELSE d[i]])
        s0  == Cardinality({i \in I : d[i] > 0})
        lag == [i \in I |->
                  IF d[i] = 0 THEN 0
                  ELSE (D \div d[i]) * SumSeq(Pick(z, nbrs[i]))]
    IN  [num |-> n * SumSeq([i \in I |-> z[i] * lag[i]]),
         den |-> s0 * D * SumSeq([i \in I |-> z[i] * z[i]])]

IsNaN(x) == x.den = 0

\* a > b on floats: False when either side is NaN
FloatGreater(a, b) ==
    /\ ~ IsNaN(a)
    /\ ~ IsNaN(b)
    /\ a.num * b.den > b.num * a.den

\* Moran.p_sim in thousandths: larger = (sim >= I).sum(), folded to the
\* smaller tail, p_sim = (larger + 1) / (permutations + 1)
PSim(larger) ==
    LET folded == IF NumPermutations - larger < larger
                  THEN NumPermutations - larger ELSE larger
    IN  ((folded + 1) * 1000) \div (NumPermutations + 1)

\* _interpret_global_moran
_interpret_global_moran(p_sim, morans_i, expected_i) ==
    IF p_sim >= SignificanceLevel
    THEN "No significant spatial clustering detected"
    ELSE IF FloatGreater(morans_i, expected_i)
    THEN "Significant positive autocorrelation"
    ELSE "Significant negative autocorrelation"

\* the result dict of calculate_global_morans_i, larger being the outcome of
\* the random permutations
calculate_global_morans_i(net, distance_threshold, larger) ==
    LET y  == [i \in 1..Len(net) |-> net[i].ride_count]
        mi == MoranI(y, DistanceBand(net, distance_threshold))
        ei == [num |-> 0 - 1, den |-> Len(net) - 1]
    IN  [morans_i       |-> mi,
         expected_i     |-> ei,
         p_value        |-> PSim(larger),
         significant    |-> PSim(larger) < SignificanceLevel,
         interpretation |-> _interpret_global_moran(PSim(larger), mi, ei)]

\* with a NaN statistic every comparison sim >= I is False
PermutationCounts(net, distance_threshold) ==
    LET y == [i \in 1..Len(net) |-> net[i].ride_count]
    IN  IF IsNaN(MoranI(y, DistanceBand(net, distance_threshold)))
        THEN {0} ELSE PermutationOutcomes

InitMoran ==
    /\ IdleBuild
    /\ stage = "projected"
    /\ \E l \in Layouts, n \in 2..MaxSegs :
          \E f \in [1..n -> RideCountValues] :
             network_proj = MoranNetwork(l, f)
    /\ zones_proj = NoZones
    /\ min_traffic = DefaultMinTraffic
    /\ candidates = <<>>
    /\ global_moran = <<>>
    /\ lisa_runs = <<>>
    /\ candidates_file = <<>>

CalculateGlobalMoransI ==
    /\ stage = "projected"
    /\ \E larger \in PermutationCounts(network_proj, DistanceThreshold) :
          global_moran' = <<calculate_global_morans_i(
                                network_proj, DistanceThreshold, larger)>>
    /\ stage' = "global_moran"
    /\ UNCHANGED <<network_proj, zones_proj, min_traffic, candidates>>
    /\ UNCHANGED runVars
    /\ UNCHANGED buildVars

NextMoran == CalculateGlobalMoransI

SpecMoran == InitMoran /\ [][NextMoran]_vars

-----------------------------------------------------------------------------
(* Claims about candidate siting *)

CandidateRows(t) == find_candidate_locations(network_proj, t).rows

SupportingHotspots(rows) ==
    SumSeq([k \in 1..Len(rows) |-> rows[k].hotspot_segments])

\* C2: for a fixed LISA-annotated network, raising min_traffic never
\* increases the number of candidates find_candidate_locations returns, a
\* chain of hotspots broken by the raise included
C2_CandidateCountMonotone ==
    stage = "candidates" =>
        \A t \in MinTraffics :
            t <= min_traffic => Len(candidates) <= Len(CandidateRows(t))

\* C2 (amended): raising min_traffic never increases the number of hotspot
\* segments grouped into candidates
C2_SupportMonotone ==
    stage = "candidates" =>
        \A t \in MinTraffics :
            t <= min_traffic =>
                SupportingHotspots(candidates)
                    <= SupportingHotspots(CandidateRows(t))

\* a raised threshold split one group of hotspots into two candidates
C2_Witness ==
    /\ stage = "candidates"
    /\ \E t \in MinTraffics :
          /\ t < min_traffic
          /\ Len(candidates) > Len(CandidateRows(t))
          /\ SupportingHotspots(candidates) < SupportingHotspots(CandidateRows(t))

Prohibited(c) ==
    /\ zones_proj.present
    /\ \E j \in 1..Len(zones_proj.polys) :
          /\ zones_proj.polys[j].ZONA = "A"
          /\ Within(c.geometry, zones_proj.polys[j])

OutsideEveryZone(c) ==
    /\ zones_proj.present
    /\ \A j \in 1..Len(zones_proj.polys) :
          ~ Within(c.geometry, zones_proj.polys[j])

\* C4: after check_environmental_constraints and calculate_composite_scores
\* every candidate within a zone 'A' polygon has suitability_score 0, one
\* that also lies within a polygon of another zone included: the two steps
\* complete and leave it with score 0
C4_ProhibitedScoresZero ==
    \A k \in 1..Len(candidates) :
        Prohibited(candidates[k]) =>
            /\ stage # "failed"
            /\ stage = "scored" => candidates[k].suitability_score.num = 0

\* C5: in a scored set with a candidate inside a zone 'A' polygon and one
\* outside every zone, the outside one keeps the score of its metrics, which
\* is positive, and its rank is strictly smaller than the prohibited one's
C5_OutsideBeatsProhibited ==
    stage = "scored" =>
        \A i, j \in 1..Len(candidates) :
            (Prohibited(candidates[i]) /\ OutsideEveryZone(candidates[j])) =>
                LET K == 1..Len(candidates)
                    o == candidates[j]
                IN  /\ o.suitability_score.num > 0
                    /\ o.suitability_score =
                         WeightedScore(
                            DenseRank([k \in K |->
                                IntRat(candidates[k].unique_trail_length_km)], j),
                            DenseRank([k \in K |->
                                IntRat(candidates[k].total_rides)], j),
                            DenseRank([k \in K |->
                                candidates[k].mean_local_morans_i], j),
                            Len(candidates))
                    /\ o.rank < candidates[i].rank

\* a prohibited candidate whose metrics are no worse than an outside one's
C5_Witness ==
    /\ stage = "scored"
    /\ \E i, j \in 1..Len(candidates) :
          /\ Prohibited(candidates[i])
          /\ OutsideEveryZone(candidates[j])
          /\ candidates[i].unique_trail_length_km
                >= candidates[j].unique_trail_length_km
          /\ candidates[i].total_rides >= candidates[j].total_rides

SameScore(a, b) ==
    /\ RatLeq(a.suitability_score, b.suitability_score)
    /\ RatLeq(b.suitability_score, a.suitability_score)

\* C6: in the output of calculate_composite_scores the rows are in rank
\* order, a smaller rank never has a smaller score, two candidates share a
\* rank exactly when they share a score, and the ranks are 1..k without gaps
C6_DenseRanks ==
    stage = "scored" =>
        LET K == 1..Len(candidates)
            ranks == {candidates[i].rank : i \in K}
        IN  /\ \A i, j \in K :
                  /\ i < j => candidates[i].rank <= candidates[j].rank
                  /\ candidates[i].rank < candidates[j].rank =>
                        RatLeq(candidates[j].suitability_score,
                               candidates[i].suitability_score)
                  /\ candidates[i].rank = candidates[j].rank <=>
                        SameScore(candidates[i], candidates[j])
            /\ ranks = 1..Cardinality(ranks)

\* three candidates, two of them tied ahead of the third
C6_Witness ==
    /\ stage = "scored"
    /\ Len(candidates) = 3
    /\ candidates[1].rank = 1
    /\ candidates[2].rank = 1
    /\ candidates[3].rank = 2
    /\ candidates[3].suitability_score.num > 0

Overlap(g, h) == MaxOf({Lo(g), Lo(h)}) < MinOf({Hi(g), Hi(h)})

Catchment(c) ==
    {i \in 1..Len(network_proj) :
        InCatchment(network_proj[i].geometry, c.geometry, CatchmentRadius)}

-----------------------------------------------------------------------------
(* Claims about Global Moran's I *)

ZeroVariance(net) ==
    \A i, j \in 1..Len(net) : net[i].ride_count = net[j].ride_count

\* C10: for a network whose segments all have the same ride_count,
\* calculate_global_morans_i reports significant = False with the
\* no-significant-clustering interpretation
C10_ZeroVarianceNotSignificant ==
    (stage = "global_moran" /\ ZeroVariance(network_proj)) =>
        /\ ~ global_moran[1].significant
        /\ global_moran[1].interpretation
              = "No significant spatial clustering detected"

-----------------------------------------------------------------------------
(* Further properties of network construction and mapping *)

\* no track is left by the length filter of the strategy: of the simplified
\* tracks, or of the merged lines under the merge strategy
NoSurvivingTrack ==
    IF entry = "fast"
    THEN LET merged == LineMerge([i \in 1..Len(rides) |->
                           Simplify(rides[i].geometry, SIMPLIFY_TOLERANCE)])
         IN  \A i \in 1..Len(merged) : Length(merged[i]) < cfg_min_length
    ELSE \A k \in 1..Len(rides) :
            SimplifiedLength(rides[k]) < EffectiveMinLength

\* C11: every builder strategy, given zero tracks or tracks that the
\* min-length filter all removes, returns an empty network and does not raise
C11_EmptyNetworkNoRaise ==
    (pc \in {"built", "failed"} /\ mapLog = <<>> /\ NoSurvivingTrack)
        => (pc = "built" /\ network = <<>>)

\* C15: after construction and mapping every segment has a segment_id of
\* its own, a length, a contribution list and ride_count >= 1
C15_SegmentShape ==
    pc = "mapped" =>
        /\ {"segment_id", "length_m", "ride_count", "rides"} \subseteq cols
        /\ \A i, j \in 1..Len(network) :
              i # j => network[i].segment_id # network[j].segment_id
        /\ \A i \in 1..Len(network) : network[i].ride_count >= 1

SummedLength(net) == SumSeq([i \in 1..Len(net) |-> net[i].length_m])

\* C16: for a track set run under the clustering and the merge strategy,
\* the unique length of the merge network is <= the summed segment length of
\* the clustered network, and each network's ride counts sum to at least the
\* number of tracks
C16_MergeUniqueAtMostClustered ==
    (pc = "mapped" /\ entry = "fast") =>
        LET clustered == create_network_clustered(
                             rides, SIMPLIFY_TOLERANCE, cfg_min_length,
                             DefaultClusterDistance)
        IN  clustered.ok =>
              /\ UnionLength([i \in 1..Len(network) |-> network[i].geometry])
                    <= SummedLength(clustered.net)
              /\ TotalRideCount(network) >= Len(rides)
              /\ TotalRideCount(clustered.net) >= Len(rides)

\* the tracks the length filter of the clustering strategy keeps
KeptTracks ==
    {k \in 1..Len(rides) : SimplifiedLength(rides[k]) >= cfg_min_length}

MemberIds(seg) == {seg.rides[j].activity_id : j \in 1..Len(seg.rides)}

\* C20: under the clustering strategy every track that survives the length
\* filter is in exactly one segment's contribution list, a segment's
\* ride_count is the size of its list, and its geometry is that of a longest
\* member
C20_ClusterMembership ==
    (pc = "built" /\ mapLog = <<>> /\ entry = "clustered") =>
        /\ \A k \in KeptTracks :
              Cardinality({i \in 1..Len(network) :
                              k \in MemberIds(network[i])}) = 1
        /\ \A i \in 1..Len(network) :
              /\ MemberIds(network[i]) \subseteq KeptTracks
              /\ network[i].ride_count = Len(network[i].rides)
              /\ network[i].ride_count = Cardinality(MemberIds(network[i]))
              /\ \E k \in MemberIds(network[i]) :
                    /\ network[i].geometry
                          = Simplify(rides[k].geometry, SIMPLIFY_TOLERANCE)
                    /\ network[i].length_m = SimplifiedLength(rides[k])
              /\ \A k \in MemberIds(network[i]) :
                    SimplifiedLength(rides[k]) <= network[i].length_m

\* a cluster of tracks of different lengths whose first member is not the
\* longest, next to a second cluster
C20_Witness ==
    /\ pc = "built" /\ mapLog = <<>> /\ entry = "clustered"
    /\ Len(network) >= 2
    /\ \E i \in 1..Len(network) :
          /\ network[i].ride_count >= 2
          /\ SimplifiedLength(rides[MinOf(MemberIds(network[i]))])
                < network[i].length_m

-----------------------------------------------------------------------------
(* Further properties of candidate siting *)

\* C12: when hotspot clustering yields zero candidates - no segment is
\* High-High, significant and at or above the usage floor, or such segments
\* exist but no two of them group - find_candidate_locations and analyze end
\* in the no-result outcome without raising, and none of the accessibility,
\* constraint and scoring steps runs.
C12_NoCandidatesNoResult ==
    (stage # "lisa" /\ candidates = <<>>) => stage = "no_candidates"

-----------------------------------------------------------------------------
(* main, from LocationAnalyzer.analyze to stats: the pipeline run *)

export_cols ==
    {"rank", "suitability_score", "geometry", "trail_count",
     "trail_length_km", "unique_trail_length_km", "total_rides",
     "mean_local_morans_i", "clustering_strength", "in_prohibited_zone",
     "zone_type", "hotspot_segments"}

\* results[export_cols] of one row
ExportRow(row) == [c \in export_cols |-> row[c]]

\* LocationAnalyzer.save_results(results, candidates_file), called by main
\* whatever analyze returned: results is None after the no-hotspot outcome,
\* and None[export_cols] raises TypeError
SaveResults ==
    /\ stage \in {"scored", "no_candidates"}
    /\ IF stage = "no_candidates"
       THEN /\ stage' = "run_failed"
            /\ UNCHANGED candidates_file
       ELSE /\ candidates_file' =
                   <<[k \in 1..Len(candidates) |-> ExportRow(candidates[k])]>>
            /\ stage' = "saved"
    /\ UNCHANGED <<network_proj, zones_proj, min_traffic, candidates,
                   global_moran, lisa_runs>>
    /\ UNCHANGED buildVars

\* candidates = gpd.read_file(candidates_file)
ReadCandidates ==
    /\ stage = "saved"
    /\ candidates' = candidates_file[1]
    /\ stage' = "read"
    /\ UNCHANGED <<network_proj, zones_proj, min_traffic, global_moran>>
    /\ UNCHANGED runVars
    /\ UNCHANGED buildVars

\* TrailsLayers.add_candidate_locations and BaseLayers.add_description: one
\* marker per candidate row, the panel lists the first min(3, len) rows
AddCandidateMarkers ==
    /\ stage = "read"
    /\ stage' = "markers"
    /\ UNCHANGED <<network_proj, zones_proj, min_traffic, candidates,
                   global_moran>>
    /\ UNCHANGED runVars
    /\ UNCHANGED buildVars

\* stats: the file exists and has a first row, candidates.iloc[0]
Stats ==
    /\ stage = "markers"
    /\ Len(candidates_file[1]) > 0
    /\ stage' = "done"
    /\ UNCHANGED <<network_proj, zones_proj, min_traffic, candidates,
                   global_moran>>
    /\ UNCHANGED runVars
    /\ UNCHANGED buildVars

NextRun ==
    \/ NextSite
    \/ SaveResults
    \/ ReadCandidates
    \/ AddCandidateMarkers
    \/ Stats

SpecRun == InitSite /\ [][NextRun]_vars

\* C13: when the analysis ended in the no-hotspot outcome, every later step
\* of the pipeline run (saving the results, reading the candidates back,
\* adding the markers, the summary statistics) handles it: no step of the
\* run fails on it.
C13_NoHotspotRunCompletes ==
    [][stage = "no_candidates" => stage' # "run_failed"]_vars

-----------------------------------------------------------------------------
(* SpatialAutocorrelation.calculate_local_morans_i *)

\* calls of calculate_local_morans_i in one pipeline run: analyze, then main
LisaCalls == 2

\* esda's Moran_Local(y, w) before its permutations, per segment: z is
\* n * (y - mean), lag the sum of the neighbours' z (the sign of the
\* row-standardised spatial lag), Is = (n - 1) * z * lag / sum(z * z), and
\* the quadrant q = 1 (HH: z > 0, lag > 0), 2 (LH: z <= 0, lag > 0),
\* 3 (LL: z <= 0, lag <= 0), 4 (HL: z > 0, lag <= 0)
LocalMoran(y, nbrs) ==
    LET I == 1..Len(y)
        n == Len(y)
    IN  Eval([i \in I |-> n * y[i] - SumSeq(y)],
             LAMBDA z :
                Eval(SumSeq([i \in I |-> z[i] * z[i]]),
                     LAMBDA den :
                        [i \in I |->
                            Eval(SumSeq(Pick(z, nbrs[i])),
                                 LAMBDA lag :
                                    [Is  |-> IF den = 0
                                             THEN [num |-> 0, den |-> 0]
                                             ELSE IF nbrs[i] = {}
                                             THEN [num |-> 0, den |-> 1]
                                             ELSE Rat((n - 1) * z[i] * lag,
                                                      Cardinality(nbrs[i]) * den),
                                     z   |-> z[i],
                                     lag |-> lag,
                                     q   |-> IF z[i] > 0
                                             THEN (IF lag > 0 THEN 1 ELSE 4)
                                             ELSE (IF lag > 0 THEN 2 ELSE 3)])]))

\* whether the conditional permutations of segment i can give statistics
\* that differ from one another: i is not at the mean, has neighbours but
\* not every other segment, and the other segments' values are not all equal
Randomised(y, nbrs, i) ==
    /\ Len(y) * y[i] # SumSeq(y)
    /\ Cardinality(nbrs[i]) > 0
    /\ Cardinality(nbrs[i]) < Len(y) - 1
    /\ Cardinality({y[j] : j \in (1..Len(y)) \ {i}}) > 1

\* the outcomes of the unseeded permutations, larger[i] = (sim >= Is).sum()
\* for segment i: 48 gives p_sim 0.049 and 49 gives p_sim 0.050.  Where all
\* permuted statistics equal the observed one, larger is the number of
\* permutations; with a NaN statistic every comparison is False.
LocalPermutationCounts(net, distance_threshold) ==
    LET I     == 1..Len(net)
        y     == [i \in I |-> net[i].ride_count]
        nan   == \A i \in I : Len(net) * y[i] = SumSeq(y)
        draws == { [i \in I |-> 48], [i \in I |-> 49] }
    IN  Eval(DistanceBand(net, distance_threshold),
             LAMBDA nbrs :
                Eval([i \in I |-> Randomised(y, nbrs, i)],
                     LAMBDA random :
                        { [i \in I |->
                              IF random[i] THEN draw[i]
                              ELSE IF nan THEN 0 ELSE NumPermutations] :
                          draw \in draws }))

\* _classify_lisa_quadrants(lisa, y), lisa[i] carrying p_sim and q
_classify_lisa_quadrants(lisa, y) ==
    [i \in 1..Len(lisa) |->
        IF lisa[i].p_sim >= SignificanceLevel THEN "Not Significant"
        ELSE IF Len(y) * y[i] > SumSeq(y) /\ lisa[i].q = 1 THEN "High-High"
        ELSE IF Len(y) * y[i] < SumSeq(y) /\ lisa[i].q = 3 THEN "Low-Low"
        ELSE IF Len(y) * y[i] > SumSeq(y) /\ lisa[i].q = 2 THEN "High-Low"
        ELSE IF Len(y) * y[i] < SumSeq(y) /\ lisa[i].q = 4 THEN "Low-High"
        ELSE "Not Significant"]

AnnotatedMutant(seg, local_i, p_sim, cluster_type) ==
    [segment_id   |-> seg.segment_id,
     geometry     |-> seg.geometry,
     distance_km  |-> seg.distance_km,
     ride_count   |-> IF p_sim < SignificanceLevel THEN seg.ride_count ELSE 0,
     local_i      |-> local_i,
     p_value      |-> p_sim,
     significant  |-> p_sim < SignificanceLevel,
     cluster_type |-> cluster_type]

\* a row of network_proj.copy() with the columns local_i, p_value,
\* significant and cluster_type assigned
Annotated(seg, local_i, p_sim, cluster_type) ==
    [segment_id   |-> seg.segment_id,
     geometry     |-> seg.geometry,
     distance_km  |-> seg.distance_km,
     ride_count   |-> seg.ride_count,
     local_i      |-> local_i,
     p_value      |-> p_sim,
     significant  |-> p_sim < SignificanceLevel,
     cluster_type |-> cluster_type]

\* network_with_lisa of calculate_local_morans_i, larger being the outcome
\* of the random permutations (z_score, a float of the permuted statistics'
\* mean and deviation, is left out)
calculate_local_morans_i(net, distance_threshold, larger) ==
    LET I == 1..Len(net)
        y == [i \in I |-> net[i].ride_count]
    IN  Eval(LocalMoran(y, DistanceBand(net, distance_threshold)),
             LAMBDA lm :
                Eval([i \in I |-> [p_sim |-> PSim(larger[i]), q |-> lm[i].q]],
                     LAMBDA lisa :
                        Eval(_classify_lisa_quadrants(lisa, y),
                             LAMBDA cls :
                                [i \in I |->
                                    Annotated(net[i], lm[i].Is,
                                              lisa[i].p_sim, cls[i])])))

\* analyze (step 2) and main (network_with_lisa.gpkg) each call
\* calculate_local_morans_i on the projected network
CalculateLocalMoransI ==
    /\ stage \in {"projected", "lisa"}
    /\ Len(lisa_runs) < LisaCalls
    /\ \E larger \in LocalPermutationCounts(network_proj, DistanceThreshold) :
          lisa_runs' = Append(lisa_runs,
                              calculate_local_morans_i(
                                  network_proj, DistanceThreshold, larger))
    /\ stage' = "lisa"
    /\ UNCHANGED <<network_proj, zones_proj, min_traffic, candidates,
                   global_moran, candidates_file>>
    /\ UNCHANGED buildVars

NextLisa == CalculateLocalMoransI

SpecLisa == InitMoran /\ [][NextLisa]_vars

\* C14: two computations on identical input produce identical output: the
\* p-values, significance flags and cluster labels of the two Local Moran
\* computations of one pipeline run are the same.
C14_LisaRunsAgree ==
    Len(lisa_runs) = LisaCalls => lisa_runs[1] = lisa_runs[2]

\* z and lag of the analysed network's segments
Quadrants ==
    LocalMoran([i \in 1..Len(network_proj) |-> network_proj[i].ride_count],
               DistanceBand(network_proj, DistanceThreshold))

\* C18: every segment gets exactly one of the five labels: Not Significant
\* when p >= 0.05 whatever the quadrant; when significant, High-High above
\* the mean with high neighbours, Low-Low below the mean with low neighbours,
\* High-Low above the mean with low neighbours and Low-High below the mean
\* with high neighbours.
C18_QuadrantLabels ==
    \A r \in 1..Len(lisa_runs) : \A i \in 1..Len(lisa_runs[r]) :
        LET seg == lisa_runs[r][i]
            z   == Quadrants[i].z
            lag == Quadrants[i].lag
        IN  /\ seg.cluster_type \in {"High-High", "Low-Low", "High-Low",
                                     "Low-High", "Not Significant"}
            /\ seg.p_value >= SignificanceLevel
                  => seg.cluster_type = "Not Significant"
            /\ (seg.p_value < SignificanceLevel /\ z > 0 /\ lag > 0)
                  => seg.cluster_type = "High-High"
            /\ (seg.p_value < SignificanceLevel /\ z < 0 /\ lag < 0)
                  => seg.cluster_type = "Low-Low"
            /\ (seg.p_value < SignificanceLevel /\ z > 0 /\ lag < 0)
                  => seg.cluster_type = "High-Low"
            /\ (seg.p_value < SignificanceLevel /\ z < 0 /\ lag > 0)
                  => seg.cluster_type = "Low-High"

-----------------------------------------------------------------------------
(* Siting without exclusion-zone data *)

\* the score of candidate k's metrics among the candidates, no zone penalty
MetricScore(k) ==
    LET K == 1..Len(candidates)
    IN  WeightedScore(
            DenseRank([j \in K |-> IntRat(candidates[j].unique_trail_length_km)], k),
            DenseRank([j \in K |-> IntRat(candidates[j].total_rides)], k),
            DenseRank([j \in K |-> candidates[j].mean_local_morans_i], k),
            Len(candidates))

\* C17: without exclusion-zone data check_environmental_constraints does
\* not fail and marks every candidate not prohibited with zone 'Unknown',
\* and calculate_composite_scores then leaves every candidate the positive
\* score of its metrics: no score is set to zero on account of zones.
C17_NoZonesUnconstrained ==
    ~ zones_proj.present =>
        /\ stage = "failed" => candidates = <<>>
        /\ stage \in {"checked", "scored"} =>
              \A k \in 1..Len(candidates) :
                  /\ ~ candidates[k].in_prohibited_zone
                  /\ candidates[k].zone_type = "Unknown"
        /\ stage = "scored" =>
              \A k \in 1..Len(candidates) :
                  /\ candidates[k].suitability_score = MetricScore(k)
                  /\ candidates[k].suitability_score.num > 0

\* several candidates scored after a check without zone data
C17_Witness ==
    /\ stage = "scored"
    /\ ~ zones_proj.present
    /\ Len(candidates) >= 2

-----------------------------------------------------------------------------
(* The dispatchers: create_network_sequential and create_network_auto *)

Dispatchers == {"sequential", "auto"}

AutoStrategyMutant(n) ==
    IF n < AutoSimpleBelow THEN "ultra_simple"
    ELSE IF n < AutoClusteredBelow THEN "vectorized"
    ELSE IF n < AutoVectorizedBelow THEN "clustered"
    ELSE "grid_based"

\* the builder create_network_auto calls for n rides
AutoStrategy(n) ==
    IF n < AutoSimpleBelow THEN "ultra_simple"
    ELSE IF n < AutoClusteredBelow THEN "clustered"
    ELSE IF n < AutoVectorizedBelow THEN "vectorized"
    ELSE "grid_based"

\* the builder dispatcher d calls for n rides
Selected(d, n) ==
    IF d = "sequential" THEN SequentialStrategy(n) ELSE AutoStrategy(n)

\* DBSCAN(eps=cluster_distance, min_samples=1) of create_network_clustered
\* as dispatcher d calls it: create_network_sequential passes
\* cluster_distance = snap_tolerance * 2, create_network_auto leaves the
\* default
ClusterCall(d, snap_tolerance) ==
    [eps         |-> IF d = "sequential" THEN snap_tolerance * 2
                     ELSE DefaultClusterDistance,
     min_samples |-> 1]

\* a track collection of any size up to the bound, known by its count
InitDispatch ==
    /\ pc = "start"
    /\ rides = <<>>
    /\ entry \in Dispatchers
    /\ cfg_min_length = 0
    /\ network = <<>>
    /\ cols = {}
    /\ mapLog = <<>>
    /\ firstCounts = <<>>
    /\ n_rides \in 0..MaxTrackCount
    /\ strategy = "none"
    /\ dbscan = <<>>
    /\ grid = <<>>
    /\ network_file = <<>>
    /\ IdleSite

\* n_rides = len(rides) and the if / elif chain on it
Dispatch ==
    /\ pc = "start"
    /\ strategy' = Selected(entry, n_rides)
    /\ dbscan' = IF Selected(entry, n_rides) = "clustered"
                 THEN <<ClusterCall(entry, SNAP_TOLERANCE)>> ELSE <<>>
    /\ pc' = "dispatched"
    /\ UNCHANGED <<rides, entry, cfg_min_length, network, cols, mapLog,
                   firstCounts, n_rides, grid, network_file>>
    /\ UNCHANGED siteVars

NextDispatch == Dispatch

SpecDispatch == InitDispatch /\ [][NextDispatch]_vars

\* which of the three strategies a builder implements: the vectorized and
\* the grid-based builder are the geometric merge and its grid variant
StrategyOf(builder) ==
    IF builder = "ultra_simple" THEN "direct"
    ELSE IF builder = "clustered" THEN "clustering"
    ELSE "merge"

\* the size of input a builder is meant for, in increasing order
SizeClass(builder) ==
    IF builder = "ultra_simple" THEN 1
    ELSE IF builder = "clustered" THEN 2
    ELSE IF builder \in {"fast", "vectorized"} THEN 3
    ELSE 4

LowerThreshold(d) ==
    IF d = "sequential" THEN SequentialSimpleBelow ELSE AutoSimpleBelow

UpperThreshold(d) ==
    IF d = "sequential" THEN SequentialClusteredBelow ELSE AutoClusteredBelow

\* C19: a dispatcher selects one strategy by the track count alone, against
\* its two thresholds - direct below the lower one, clustering between them,
\* merge at or above the upper one - and no smaller count selects a builder
\* meant for larger inputs than the one selected.
C19_DispatchByCount ==
    pc = "dispatched" =>
        /\ strategy \in {"ultra_simple", "clustered", "fast", "vectorized",
                         "grid_based"}
        /\ StrategyOf(strategy) =
              (IF n_rides < LowerThreshold(entry) THEN "direct"
               ELSE IF n_rides < UpperThreshold(entry) THEN "clustering"
               ELSE "merge")
        /\ \A m \in 0..n_rides :
              SizeClass(Selected(entry, m)) <= SizeClass(strategy)

\* create_network_auto at a count that selects the grid variant of the merge
C19_Witness ==
    /\ pc = "dispatched"
    /\ entry = "auto"
    /\ n_rides >= AutoVectorizedBelow
    /\ strategy = "grid_based"

-----------------------------------------------------------------------------
(* Properties of the approximate ride-to-segment mapping *)

\* the segments whose contribution list names ride r
SegmentsOf(net, r) ==
    {i \in 1..Len(net) :
        \E c \in 1..Len(net[i].rides) :
            net[i].rides[c].activity_id = r.activity_id}

\* C21: on a merge network the approximate mapping attributes each track to
\* at most one segment, also when two segments are equidistant from its
\* midpoint, so the sum of ride_count never exceeds the number of tracks.
C21_AtMostOneSegmentPerTrack ==
    (pc = "mapped" /\ entry = "fast") =>
        /\ \A k \in 1..Len(rides) :
              Cardinality(SegmentsOf(network, rides[k])) <= 1
        /\ TotalRideCount(network) <= Len(rides)

\* C22: when a dispatcher selects the density-clustering strategy, the
\* neighbourhood radius of the clustering equals the snap tolerance the
\* caller supplied and its minimum cluster size is 1.
C22_ClusterRadiusIsSnapTolerance ==
    (pc = "dispatched" /\ strategy = "clustered") =>
        /\ dbscan[1].eps = SNAP_TOLERANCE
        /\ dbscan[1].min_samples = 1

-----------------------------------------------------------------------------
(* Frame of calculate_local_morans_i *)

\* the columns a network has before the analysis
NetworkColumns == {"segment_id", "geometry", "distance_km", "ride_count"}

\* the statistical attributes calculate_local_morans_i attaches
LisaColumns == {"local_i", "p_value", "significant", "cluster_type"}

\* out has the rows of net in the same order, each with its columns
\* unchanged and the statistical attributes added
Additive(net, out) ==
    /\ Len(out) = Len(net)
    /\ \A i \in 1..Len(net) :
          /\ DOMAIN out[i] = NetworkColumns \cup LisaColumns
          /\ \A c \in NetworkColumns : out[i][c] = net[i][c]

\* C23: calculate_local_morans_i only adds statistical attributes: the
\* returned network has the same segments in the same order with unchanged
\* geometry, ride_count and length, and the input network is left unmodified.
C23_LisaAdditive ==
    [][Len(lisa_runs') > Len(lisa_runs) =>
          /\ network_proj' = network_proj
          /\ Additive(network_proj, lisa_runs'[Len(lisa_runs')])]_vars

\* a computation on a network with a segment that is not significant
C23_Witness ==
    /\ Len(lisa_runs) > 0
    /\ \E i \in 1..Len(lisa_runs[1]) : ~ lisa_runs[1][i].significant

-----------------------------------------------------------------------------
(* What the scoring stages leave of the hotspot clustering's record *)

\* the columns find_candidate_locations records per candidate
ClusterRecord(c) ==
    [hotspot_segments    |-> c.hotspot_segments,
     total_rides         |-> c.total_rides,
     mean_local_morans_i |-> c.mean_local_morans_i,
     clustering_strength |-> c.clustering_strength]

\* C24: the scoring stages never change what hotspot clustering recorded:
\* after calculate_trail_access, check_environmental_constraints and
\* calculate_composite_scores each candidate's member segment count, total
\* usage of its member segments, and mean and sum of local Moran's I are
\* the values find_candidate_locations set.
C24_ClusterRecordKept ==
    stage \in {"access", "checked", "scored"} =>
        \A k \in 1..Len(candidates) :
            \E o \in 1..Len(CandidateRows(min_traffic)) :
                /\ CandidateRows(min_traffic)[o].geometry
                      = candidates[k].geometry
                /\ ClusterRecord(CandidateRows(min_traffic)[o])
                      = ClusterRecord(candidates[k])

\* the segments of network_proj that pass the hotspot conditions at the
\* threshold of the call
EligibleSegments ==
    {i \in 1..Len(network_proj) :
        /\ network_proj[i].cluster_type = "High-High"
        /\ network_proj[i].significant
        /\ network_proj[i].ride_count >= min_traffic}

\* the sets of eligible segments candidate k can have been pulled from: as
\* many as it records, with its total usage and its weighted centre
Supports(k) ==
    {S \in SUBSET EligibleSegments :
        /\ Cardinality(S) = candidates[k].hotspot_segments
        /\ SumSeq(Pick(RideCounts(network_proj), S)) = candidates[k].total_rides
        /\ WeightedCentre(Pick(network_proj, S)) = candidates[k].geometry}

\* candidates k.. can each be given a supporting set that shares no segment
\* with the others or with the set used
RECURSIVE DisjointSupport(_, _)
DisjointSupport(k, used) ==
    IF k > Len(candidates) THEN TRUE
    ELSE \E S \in Supports(k) :
            /\ S \cap used = {}
            /\ DisjointSupport(k + 1, used \cup S)

\* C25: every candidate find_candidate_locations returns is supported by at
\* least two segments, all High-High, significant and with ride_count >=
\* min_traffic; hotspot_segments is the number of its supporting segments, and
\* no eligible segment supports more than one candidate
C25_CandidatesSupported ==
    stage = "candidates" =>
        /\ \A k \in 1..Len(candidates) : candidates[k].hotspot_segments >= 2
        /\ DisjointSupport(1, {})

\* two candidates were found and an eligible segment far from the other
\* hotspots supports neither
C25_Witness ==
    /\ stage = "candidates"
    /\ Len(candidates) >= 2
    /\ SupportingHotspots(candidates) < Cardinality(EligibleSegments)

-----------------------------------------------------------------------------
(* Composite scores *)

\* column.rank(ascending=True, method='dense') / len(df) * 100 of candidate
\* k: the number of distinct values of the column not above its own, scaled
ComponentScore(vals, k) ==
    LET K == 1..Len(vals)
    IN  Rat(100 * Cardinality({vals[j] : j \in {i \in K : RatLeq(vals[i], vals[k])}}),
            Len(vals))

accessibility_score(k) ==
    ComponentScore([j \in 1..Len(candidates) |->
                       IntRat(candidates[j].unique_trail_length_km)], k)

usage_score(k) ==
    ComponentScore([j \in 1..Len(candidates) |->
                       IntRat(candidates[j].total_rides)], k)

clustering_score(k) ==
    ComponentScore([j \in 1..Len(candidates) |->
                       candidates[j].mean_local_morans_i], k)

\* 0 <= q <= 100
InScoreRange(q) == RatLeq(IntRat(0), q) /\ RatLeq(q, IntRat(100))

\* q = (30 a + 30 u + 40 c) / 100
IsWeightedSum(q, a, u, c) ==
    q.num * 100 * a.den * u.den * c.den
        = q.den * (30 * a.num * u.den * c.den + 30 * u.num * a.den * c.den
                     + 40 * c.num * a.den * u.den)

\* C26: in every non-empty scored candidate set a candidate's
\* suitability_score is 0.30 x accessibility + 0.30 x usage + 0.40 x
\* clustering score, each the dense rank of its column over the set scaled to
\* 100, unless the candidate is prohibited; every component score and the
\* composite score lie within 0..100
C26_CompositeScore ==
    (stage = "scored" /\ Len(candidates) > 0) =>
        \A k \in 1..Len(candidates) :
            /\ InScoreRange(accessibility_score(k))
            /\ InScoreRange(usage_score(k))
            /\ InScoreRange(clustering_score(k))
            /\ InScoreRange(candidates[k].suitability_score)
            /\ ~ candidates[k].in_prohibited_zone =>
                  IsWeightedSum(candidates[k].suitability_score,
                                accessibility_score(k), usage_score(k),
                                clustering_score(k))

\* a scored set with a prohibited candidate and one that is not, whose three
\* component scores differ from each other
C26_Witness ==
    /\ stage = "scored"
    /\ \E i, k \in 1..Len(candidates) :
          /\ candidates[i].in_prohibited_zone
          /\ ~ candidates[k].in_prohibited_zone
          /\ accessibility_score(k) # clustering_score(k)
          /\ usage_score(k) # clustering_score(k)

-----------------------------------------------------------------------------
(* OptimizedNetworkBuilder.create_network_grid_based *)

\* grid_size: the default and a cell size a caller passes
DefaultGridSize == 1000

GridSizes == {200, DefaultGridSize}

\* rides_proj.total_bounds[0]: the least x of every track
MinX(rs) == MinOf(UNION {{rs[i].geometry[j] : j \in 1..Len(rs[i].geometry)} :
                            i \in 1..Len(rs)})

\* ((geometry.centroid.x - bounds[0]) / grid_size).astype(int)
grid_x(r, bound, grid_size) ==
    LET c == Centroid(r.geometry)
    IN  (c.num - bound * c.den) \div (c.den * grid_size)

\* the lines of one cell: its tracks, simplified
CellLines(rs, cell, bound, grid_size, simplify_tolerance) ==
    LET members == {i \in 1..Len(rs) : grid_x(rs[i], bound, grid_size) = cell}
    IN  [k \in 1..Cardinality(members) |->
            Simplify(Pick(rs, members)[k].geometry, simplify_tolerance)]

\* [s for s in segments if s.length >= min_length]
LongEnough(lines, min_length) ==
    LET Keep(g) == Length(g) >= min_length
    IN  SelectSeq(lines, Keep)

\* steps 4-5 and the GeoDataFrame: the short pieces are filtered out, what
\* is left is merged across the cells and filtered again
CrossCellMerge(all_segments, min_length) ==
    Eval(LongEnough(LineMerge(LongEnough(all_segments, min_length)), min_length),
         LAMBDA final_segments :
            [i \in 1..Len(final_segments) |->
                Segment(i - 1, final_segments[i], Length(final_segments[i]),
                        0, <<>>)])

InitGrid ==
    /\ pc = "start"
    /\ \E shapes \in RideLists : rides = LoadRides(shapes)
    /\ entry = "grid_based"
    /\ cfg_min_length \in MinLengths
    /\ network = <<>>
    /\ cols = {}
    /\ mapLog = <<>>
    /\ firstCounts = <<>>
    /\ n_rides = 0
    /\ strategy = "none"
    /\ dbscan = <<>>
    /\ \E g \in GridSizes :
          grid = [grid_size |-> g, pending |-> {}, all_segments |-> <<>>]
    /\ network_file = <<>>
    /\ IdleSite

\* steps 1-2: the bounds and the cell of every track; int(np.ceil(nan)) of
\* the bounds of no tracks raises
AssignCells ==
    /\ pc = "start"
    /\ entry = "grid_based"
    /\ IF rides = <<>>
       THEN pc' = "failed" /\ UNCHANGED grid
       ELSE /\ pc' = "cells"
            /\ grid' = [grid EXCEPT
                  !.pending = {grid_x(rides[i], MinX(rides), grid.grid_size) :
                                 i \in 1..Len(rides)}]
    /\ UNCHANGED <<rides, entry, cfg_min_length, network, cols, mapLog,
                   firstCounts, n_rides, strategy, dbscan, network_file>>
    /\ UNCHANGED siteVars

\* step 3, one turn of the loop over the cells: the cell's lines are merged
\* and added to all_segments
ProcessCell ==
    /\ pc = "cells"
    /\ grid.pending # {}
    /\ LET cell == MinOf(grid.pending)
       IN  grid' = [grid EXCEPT
              !.pending = grid.pending \ {cell},
              !.all_segments =
                  grid.all_segments
                     \o LineMerge(CellLines(rides, cell, MinX(rides),
                                            grid.grid_size, SIMPLIFY_TOLERANCE))]
    /\ UNCHANGED <<pc, rides, entry, cfg_min_length, network, cols, mapLog,
                   firstCounts, n_rides, strategy, dbscan, network_file>>
    /\ UNCHANGED siteVars

\* steps 4-5, after the loop
MergeCells ==
    /\ pc = "cells"
    /\ grid.pending = {}
    /\ network' = CrossCellMerge(grid.all_segments, cfg_min_length)
    /\ cols' = BuiltCols
    /\ pc' = "built"
    /\ UNCHANGED <<rides, entry, cfg_min_length, mapLog, firstCounts, n_rides,
                   strategy, dbscan, grid, network_file>>
    /\ UNCHANGED siteVars

NextGrid == AssignCells \/ ProcessCell \/ MergeCells

SpecGrid == InitGrid /\ [][NextGrid]_vars

\* the same line, drawn in either direction
SameLine(g, h) == g = h \/ g = Reverse(h)

\* line g runs along line h: its vertices are consecutive vertices of h
RunsAlong(g, h) ==
    \E o \in 0..(Len(h) - Len(g)) :
        \/ \A j \in 1..Len(g) : h[o + j] = g[j]
        \/ \A j \in 1..Len(g) : h[o + j] = Reverse(g)[j]

\* the per-cell pieces of two or more cells stitched into line g
Stitched(g) ==
    /\ \A p \in 1..Len(grid.all_segments) : ~ SameLine(grid.all_segments[p], g)
    /\ \E p \in 1..Len(grid.all_segments) : RunsAlong(grid.all_segments[p], g)

\* C27: in create_network_grid_based the cross-cell merge runs only after
\* every cell was processed; the per-cell pieces that connect end to end are
\* stitched, and every chain whose stitched length is >= min_length is one
\* segment of the network, also when each of its pieces is shorter than
\* min_length; no piece is both part of a stitched segment and a segment of
\* its own
C27_CrossCellStitching ==
    /\ [][(pc = "cells" /\ pc' = "built") => grid.pending = {}]_vars
    /\ [](pc = "built" =>
            LET chains == LineMerge(grid.all_segments)
                N      == 1..Len(network)
            IN  /\ \A c \in 1..Len(chains) :
                      Length(chains[c]) >= cfg_min_length =>
                          \E i \in N : SameLine(network[i].geometry, chains[c])
                /\ \A i, j \in N :
                      (i # j /\ Stitched(network[i].geometry)) =>
                          ~ RunsAlong(network[j].geometry, network[i].geometry))

-----------------------------------------------------------------------------
(* Usage counts and contribution lists *)

\* the activity_id values of a contribution list
ActivityIds(contributions) ==
    {contributions[c].activity_id : c \in 1..Len(contributions)}

\* C28: after a construction by any strategy and any number of mapping
\* calls, every segment's ride_count is the number of records of its
\* contribution list, and no track is in one list twice
C28_CountsMatchContributions ==
    pc \in {"built", "mapped"} =>
        \A i \in 1..Len(network) :
            /\ network[i].ride_count = Len(network[i].rides)
            /\ Cardinality(ActivityIds(network[i].rides)) = Len(network[i].rides)

\* a merged network mapped twice: a segment with several tracks, and a
\* track too far from every segment to be attributed
C28_Witness ==
    /\ pc = "mapped"
    /\ entry = "fast"
    /\ Len(mapLog) = MaxMapCalls
    /\ \E i \in 1..Len(network) : network[i].ride_count >= 2
    /\ TotalRideCount(network) < Len(rides)

-----------------------------------------------------------------------------
(* main(), step 3 over two runs: build, map and save; then load and map *)

\* network.drop(columns=['rides'], errors='ignore'), written to the file
SavedNetwork(net, columns) ==
    [cols |-> columns \ {"rides"},
     net  |-> [i \in 1..Len(net) |-> [net[i] EXCEPT !.rides = <<>>]]]

InitMain ==
    /\ pc = "start"
    /\ \E shapes \in RideLists : rides = LoadRides(shapes)
    /\ entry = "sequential"
    /\ cfg_min_length = DefaultMinLength
    /\ network = <<>>
    /\ cols = {}
    /\ mapLog = <<>>
    /\ firstCounts = <<>>
    /\ n_rides = 0
    /\ strategy = "none"
    /\ dbscan = <<>>
    /\ grid = <<>>
    /\ network_file = <<>>
    /\ IdleSite

\* the first run, Config.TRAIL_NETWORK not existing: create_network_sequential
MainBuild ==
    /\ network_file = <<>>
    /\ Build

\* the first run: map_rides_to_segments on the network just built
MainMap ==
    /\ pc = "built"
    /\ network_file = <<>>
    /\ MapRides

\* the first run: save_network(network, Config.TRAIL_NETWORK)
SaveNetwork ==
    /\ pc = "mapped"
    /\ network_file = <<>>
    /\ network_file' = <<SavedNetwork(network, cols)>>
    /\ pc' = "saved"
    /\ UNCHANGED <<rides, entry, cfg_min_length, network, cols, mapLog,
                   firstCounts, n_rides, strategy, dbscan, grid>>
    /\ UNCHANGED siteVars

\* a later run on the same tracks: gpd.read_file(Config.TRAIL_NETWORK)
LoadNetwork ==
    /\ pc = "saved"
    /\ network_file # <<>>
    /\ network' = network_file[1].net
    /\ cols' = network_file[1].cols
    /\ pc' = "loaded"
    /\ UNCHANGED <<rides, entry, cfg_min_length, mapLog, firstCounts, n_rides,
                   strategy, dbscan, grid, network_file>>
    /\ UNCHANGED siteVars

\* the later run: map_rides_to_segments on the loaded network
MapLoaded ==
    /\ pc = "loaded"
    /\ LET res == map_rides_to_segments(network, cols, rides,
                                        INTERSECTION_BUFFER)
       IN  /\ pc' = IF res.ok THEN "remapped" ELSE "failed"
           /\ network' = res.net
           /\ cols' = res.cols
    /\ mapLog' = Append(mapLog, "loop")
    /\ UNCHANGED <<rides, entry, cfg_min_length, firstCounts, n_rides,
                   strategy, dbscan, grid, network_file>>
    /\ UNCHANGED siteVars

NextMain == MainBuild \/ MainMap \/ SaveNetwork \/ LoadNetwork \/ MapLoaded

SpecMain == InitMain /\ [][NextMain]_vars

\* C29: build -> map -> save followed by load -> map on the same tracks
\* gives every segment the ride_count the building run used: the counts fed
\* to the spatial analysis do not depend on whether the network was built in
\* this run or loaded from the file an earlier run saved
C29_LoadedCountsAsBuilt ==
    pc = "remapped" =>
        /\ RideCounts(network) = firstCounts[1]
        /\ RideCounts(network) = RideCounts(network_file[1].net)

-----------------------------------------------------------------------------
(* The per-track loop against the nearest-join *)

\* two mapping results assign every segment the same ride_count and the
\* same tracks
SameAttribution(a, b) ==
    /\ a.ok = b.ok
    /\ a.ok =>
          /\ RideCounts(a.net) = RideCounts(b.net)
          /\ \A i \in 1..Len(a.net) :
                ActivityIds(a.net[i].rides) = ActivityIds(b.net[i].rides)

\* C30: on every unmapped network and track set, map_rides_to_segments and
\* map_rides_to_segments_vectorized with the same buffer distance assign the
\* same ride_count to every segment and the same set of tracks to every
\* contribution list
C30_MappingsAgree ==
    (pc = "built" /\ "ride_count" \notin cols) =>
        \A vec \in map_rides_to_segments_vectorized(network, cols, rides,
                                                    INTERSECTION_BUFFER) :
            SameAttribution(map_rides_to_segments(network, cols, rides,
                                                  INTERSECTION_BUFFER), vec)

=============================================================================
